---- MODULE Spec2Model ----
(***************************************************************************)
(* State-machine model of analysis/optimizer/optimizer.py (A-Tune): the    *)
(* Optimizer worker process, its knob-space builder, warm-start transfer,  *)
(* the objective callback and the engine dispatch of Optimizer.run.        *)
(*                                                                         *)
(* Python values are tagged records.  Every Python number (int or float)   *)
(* is held in tenths, so 5 is Num(50) and 2.5 is Num(25): int() truncates, *)
(* float() keeps the value, and both parse string literals.                *)
(***************************************************************************)
EXTENDS Integers, Sequences, FiniteSets, TLC

\* ------------------------------------------------------------------ values

Tenths(i) == i * 10
Num(n) == [t |-> "num", n |-> n, s |-> ""]
I(i) == Num(Tenths(i))
Str(s) == [t |-> "str", n |-> 0, s |-> s]
NoneV == [t |-> "none", n |-> 0, s |-> ""]

\* An optional Python list: None, or a list of values.
NoneL == [none |-> TRUE, seq |-> <<>>]
L(q) == [none |-> FALSE, seq |-> q]

\* The result of a conversion or of a call that may raise: err is "" on
\* success and the exception's class otherwise.
Ok(v) == [err |-> "", v |-> v]
Raise(cls) == [err |-> cls, v |-> NoneV]

\* The text of the numerals the model uses, as int() and float() read them.
\* -1 marks a string that the conversion rejects.
IntLiteral(s) ==
    CASE s = "0" -> 0
      [] s = "1" -> 10
      [] s = "2" -> 20
      [] s = "3" -> 30
      [] s = "5" -> 50
      [] OTHER -> -1

FloatLiteral(s) ==
    CASE s = "0.5" -> 5
      [] s = "1.5" -> 15
      [] s = "2.5" -> 25
      [] OTHER -> IntLiteral(s)

Trunc(n) == IF n >= 0 THEN (n \div 10) * 10 ELSE 0 - (((0 - n) \div 10) * 10)

\* Python's int(x): truncation of a number, the parse of a numeral,
\* ValueError for any other string, TypeError for None.
PyInt(x) ==
    CASE x.t = "num" -> Ok(Num(Trunc(x.n)))
      [] x.t = "str" -> IF IntLiteral(x.s) >= 0 THEN Ok(Num(IntLiteral(x.s)))
                        ELSE Raise("ValueError")
      [] OTHER -> Raise("TypeError")

\* Python's float(x).
PyFloat(x) ==
    CASE x.t = "num" -> Ok(x)
      [] x.t = "str" -> IF FloatLiteral(x.s) >= 0 THEN Ok(Num(FloatLiteral(x.s)))
                        ELSE Raise("ValueError")
      [] OTHER -> Raise("TypeError")

\* int(x) for dtype int, float(x) for dtype float.
Convert(dtype, x) == IF dtype = "int" THEN PyInt(x) ELSE PyFloat(x)

\* Python orders two numbers; ordering a number against a string or None
\* raises TypeError.  (No knob of the model orders two strings.)
BothNum(a, b) == a.t = "num" /\ b.t = "num"

\* ------------------------------------------------------------ sequences

RECURSIVE SeqToSet(_)
SeqToSet(q) == IF q = <<>> THEN {} ELSE {Head(q)} \cup SeqToSet(Tail(q))

\* list(set(items)) over numbers: one entry per distinct value.  Python
\* leaves the order to the hash table; the model lists them ascending.
RECURSIVE SortedNums(_)
SortedNums(S) ==
    IF S = {} THEN <<>>
    ELSE LET m == CHOOSE x \in S : \A y \in S : x <= y
         IN <<Num(m)>> \o SortedNums(S \ {m})

\* list(np.arange(lo, stop, step)) for step > 0, in tenths.
RECURSIVE Arange(_, _, _)
Arange(lo, stop, step) ==
    IF lo >= stop THEN <<>> ELSE <<Num(lo)>> \o Arange(lo + step, stop, step)

\* ------------------------------------------------------------------ knobs

\* A knob descriptor (one element of Optimizer.knobs).  hasStep says whether
\* the 'step' key is present.
Knob(name, type, dtype, range, items, options, hasStep, step, ref) ==
    [name |-> name, type |-> type, dtype |-> dtype, range |-> range,
     items |-> items, options |-> options, hasStep |-> hasStep,
     step |-> step, ref |-> ref]

\* A search dimension handed to the engine: the tuple (low, high) of a
\* continuous knob, or the candidate list of a discrete knob.
Interval(lo, hi) == [kind |-> "interval", lo |-> lo, hi |-> hi, cands |-> <<>>]
Candidates(q) == [kind |-> "set", lo |-> NoneV, hi |-> NoneV, cands |-> q]

\* ----------------------------------------------------- handle_discrete_data

\* The values the range pairs add: for i in range(0, length, 2) the list
\* np.arange(r[i], r[i+1] + extra, step), with length the even prefix.
RECURSIVE RangeItems(_, _, _, _)
RangeItems(r, i, extra, step) ==
    IF i + 1 > Len(r) THEN <<>>
    ELSE Arange(r[i].n, r[i + 1].n + extra, step)
         \o RangeItems(r, i + 2, extra, step)

DiscreteNumericNoSet(p_nob, ref, step, extra) ==
    LET items0 == IF p_nob.items.none THEN <<>> ELSE p_nob.items.seq
        extended == IF p_nob.range.none THEN items0
                    ELSE items0 \o RangeItems(p_nob.range.seq, 1, extra, step)
        c == Convert(p_nob.dtype, p_nob.ref)
    IN  [err |-> c.err, items |-> extended,
         ref |-> IF c.err = "" THEN Append(ref, c.v) ELSE ref, knob |-> p_nob]

\* The int and float branches, which differ in the default step, the clamp
\* of the step (step), whether the upper bound is included (extra), and the
\* conversion of ref.
\* Returns the candidate list, the reference vector with the knob's value
\* appended, and the knob as the in-place items.extend leaves it.
DiscreteNumeric(p_nob, ref, step, extra) ==
    LET items0 == IF p_nob.items.none THEN <<>> ELSE p_nob.items.seq
        extended == IF p_nob.range.none THEN items0
                    ELSE items0 \o RangeItems(p_nob.range.seq, 1, extra, step)
        knob1 == IF p_nob.items.none THEN p_nob
                 ELSE [p_nob EXCEPT !.items = L(extended)]
        items1 == SortedNums({v.n : v \in SeqToSet(extended)})
        c == Convert(p_nob.dtype, p_nob.ref)
    IN  IF c.err # ""
        THEN [err |-> c.err, items |-> <<>>, ref |-> ref, knob |-> knob1]
        ELSE [err |-> "",
              items |-> IF c.v \in SeqToSet(items1) THEN items1
                        ELSE Append(items1, c.v),
              ref |-> Append(ref, c.v),
              knob |-> knob1]

\* for key, value in enumerate(options): every option equal to ref appends
\* its index to self.ref.
RECURSIVE MatchingKeys(_, _, _)
MatchingKeys(options, refv, key) ==
    IF key > Len(options) THEN <<>>
    ELSE (IF options[key] = refv THEN <<I(key - 1)>> ELSE <<>>)
         \o MatchingKeys(options, refv, key + 1)

DiscreteString(p_nob, ref) ==
    LET hits == MatchingKeys(p_nob.options, p_nob.ref, 1)
    IN  IF hits = <<>>
        THEN [err |-> "ValueError", items |-> <<>>, ref |-> ref, knob |-> p_nob]
        ELSE [err |-> "",
              items |-> [k \in 1..Len(p_nob.options) |-> I(k - 1)],
              ref |-> ref \o hits,
              knob |-> p_nob]

IntStep(p_nob) ==
    IF p_nob.hasStep THEN (IF p_nob.step < Tenths(1) THEN Tenths(1) ELSE p_nob.step)
    ELSE Tenths(1)

FloatStep(p_nob) ==
    IF p_nob.hasStep THEN (IF p_nob.step <= 0 THEN 1 ELSE p_nob.step)
    ELSE 1

handle_discrete_data(p_nob, ref) ==
    CASE p_nob.dtype = "int" ->
            DiscreteNumeric(p_nob, ref, IntStep(p_nob), Tenths(1))
      [] p_nob.dtype = "float" ->
            DiscreteNumeric(p_nob, ref, FloatStep(p_nob), 0)
      [] p_nob.dtype = "string" -> DiscreteString(p_nob, ref)
      [] OTHER -> [err |-> "ValueError", items |-> <<>>, ref |-> ref, knob |-> p_nob]

\* ---------------------------------------------------------------- build_space

\* ref_value = conv(ref); r_range[0] = conv(r_range[0]); r_range[1] =
\* conv(r_range[1]), in this order, each bound overwritten in place.
CoerceContinuous(p_nob) ==
    LET r == p_nob.range.seq
        a == Convert(p_nob.dtype, p_nob.ref)
        b == Convert(p_nob.dtype, r[1])
        c == Convert(p_nob.dtype, r[2])
    IN  IF a.err # "" THEN [err |-> a.err, bound |-> FALSE, rv |-> NoneV, range |-> r]
        ELSE IF b.err # "" THEN [err |-> b.err, bound |-> TRUE, rv |-> a.v, range |-> r]
        ELSE IF c.err # ""
             THEN [err |-> c.err, bound |-> TRUE, rv |-> a.v, range |-> <<b.v, r[2]>>]
        ELSE [err |-> "", bound |-> TRUE, rv |-> a.v, range |-> <<b.v, c.v>>]

OutOfRangeExclusive(ref_value, lo, hi) == ref_value.n <= lo.n \/ ref_value.n >= hi.n

\* The range test of a continuous knob.
OutOfRange(ref_value, lo, hi) == ref_value.n < lo.n \/ ref_value.n > hi.n

\* One pass of the loop body for knob i.  st carries the knob list (bounds
\* and items are overwritten in place), self.ref, objective_params_list, the
\* local ref_value (unbound until a continuous int/float knob sets it) and the
\* exception raised, if any.
BuildKnob(st, i) ==
    LET p_nob == st.knobs[i] IN
    IF p_nob.type = "discrete" THEN
        LET h == handle_discrete_data(p_nob, st.ref)
        IN  [st EXCEPT !.knobs[i] = h.knob,
                       !.err = h.err,
                       !.ref = h.ref,
                       !.space = IF h.err = "" THEN Append(@, Candidates(h.items)) ELSE @]
    ELSE IF p_nob.type = "continuous" THEN
        IF p_nob.range.none \/ Len(p_nob.range.seq) # 2
        THEN [st EXCEPT !.err = "ValueError"]
        ELSE
        LET co == CASE p_nob.dtype = "int" -> CoerceContinuous(p_nob)
                    [] p_nob.dtype = "float" -> CoerceContinuous(p_nob)
                    [] OTHER -> [err |-> "", bound |-> st.rvBound, rv |-> st.rv,
                                 range |-> p_nob.range.seq]
            st1 == [st EXCEPT !.knobs[i].range = L(co.range),
                              !.rvBound = co.bound, !.rv = co.rv]
        IN  IF co.err # "" THEN [st1 EXCEPT !.err = co.err]
            ELSE IF ~co.bound THEN [st1 EXCEPT !.err = "UnboundLocalError"]
            ELSE IF ~(BothNum(co.rv, co.range[1]) /\ BothNum(co.rv, co.range[2]))
                 THEN [st1 EXCEPT !.err = "TypeError"]
            ELSE IF OutOfRange(co.rv, co.range[1], co.range[2])
                 THEN [st1 EXCEPT !.err = "ValueError"]
            ELSE [st1 EXCEPT !.ref = Append(@, co.rv),
                             !.space = Append(@, Interval(co.range[1], co.range[2]))]
    ELSE [st EXCEPT !.err = "ValueError"]

RECURSIVE BuildFrom(_, _)
BuildFrom(st, i) ==
    IF i > Len(st.knobs) \/ st.err # "" THEN st
    ELSE BuildFrom(BuildKnob(st, i), i + 1)

\* build_space on a worker whose knob list is ks and whose self.ref is ref:
\* err = "" and space = objective_params_list on return, the exception's
\* class otherwise; ref and knobs are what the call leaves behind either way.
build_space(ks, ref) ==
    BuildFrom([knobs |-> ks, ref |-> ref, space |-> <<>>, rvBound |-> FALSE,
               rv |-> NoneV, err |-> ""], 1)

\* ------------------------------------------------------------------ transfer

\* val.split("=") on the tokens the model uses.
SplitEq(val) ==
    CASE val = "x=1" -> <<"x", "1">>
      [] val = "x=0" -> <<"x", "0">>
      [] val = "x=1.5" -> <<"x", "1.5">>
      [] val = "y=1" -> <<"y", "1">>
      [] val = "mode=b" -> <<"mode", "b">>
      [] val = "mode=a" -> <<"mode", "a">>
      [] val = "mode=z" -> <<"mode", "z">>
      [] val = "x=1=2" -> <<"x", "1", "2">>
      [] val = "f=0.5" -> <<"f", "0.5">>
      [] val = "f=1" -> <<"f", "1">>
      [] OTHER -> <<val>>

EmptyDict == [n \in {} |-> NoneV]

\* d[k] = v on a dict held as a function.
DictSet(d, k, v) ==
    [n \in DOMAIN d \cup {k} |-> IF n = k THEN v ELSE d[n]]

\* The for loop over the tokens of one x0 entry: kv[params[0]] = params[1],
\* ValueError at the first token that does not split in two.
RECURSIVE TokensToKv(_, _, _)
TokensToKv(xValue, i, kv) ==
    IF i > Len(xValue) THEN [err |-> "", kv |-> kv]
    ELSE LET params == SplitEq(xValue[i])
         IN  IF Len(params) # 2 THEN [err |-> "ValueError", kv |-> kv]
             ELSE TokensToKv(xValue, i + 1, DictSet(kv, params[1], Str(params[2])))

\* The encoding of one knob's value: int() of the text for every dtype but
\* string, the index of every option equal to the text for a string knob.
EncodeKnob(p_nob, text) ==
    IF p_nob.dtype # "string"
    THEN LET c == PyInt(text)
         IN  [err |-> c.err, xs |-> IF c.err = "" THEN <<c.v>> ELSE <<>>]
    ELSE [err |-> "", xs |-> MatchingKeys(p_nob.options, text, 1)]

RECURSIVE IntvalueFrom(_, _, _, _)
IntvalueFrom(ks, kv, i, x_each) ==
    IF i > Len(ks) THEN [err |-> "", x |-> x_each]
    ELSE IF ks[i].name \notin DOMAIN kv THEN [err |-> "ValueError", x |-> x_each]
    ELSE LET e == EncodeKnob(ks[i], kv[ks[i].name])
         IN  IF e.err # "" THEN [err |-> e.err, x |-> x_each]
             ELSE IntvalueFrom(ks, kv, i + 1, x_each \o e.xs)

get_intvalue_from_knobs(ks, kv) == IntvalueFrom(ks, kv, 1, <<>>)

RECURSIVE TransferX(_, _, _, _)
TransferX(ks, xs, i, list_ref_x) ==
    IF i > Len(xs) THEN [err |-> "", x |-> list_ref_x]
    ELSE IF Len(xs[i]) # Len(ks) THEN [err |-> "ValueError", x |-> list_ref_x]
    ELSE LET t == TokensToKv(xs[i], 1, EmptyDict)
         IN  IF t.err # "" THEN [err |-> t.err, x |-> list_ref_x]
             ELSE LET r == get_intvalue_from_knobs(ks, t.kv)
                  IN  IF r.err # "" THEN [err |-> r.err, x |-> list_ref_x]
                      ELSE IF Len(r.x) # Len(ks)
                           THEN [err |-> "ValueError", x |-> list_ref_x]
                      ELSE TransferX(ks, xs, i + 1, Append(list_ref_x, r.x))

\* [float(y) for y in self.y0]
RECURSIVE TransferY(_, _, _)
TransferY(ys, i, list_ref_y) ==
    IF i > Len(ys) THEN [err |-> "", y |-> list_ref_y]
    ELSE LET c == PyFloat(ys[i])
         IN  IF c.err # "" THEN [err |-> c.err, y |-> list_ref_y]
             ELSE TransferY(ys, i + 1, Append(list_ref_y, c.v))

\* transfer(): (list_ref_x, list_ref_y), or the exception's class in err.
transfer(ks, wx, wy) ==
    IF wx.none \/ wy.none THEN [err |-> "", x |-> <<>>, y |-> <<>>]
    ELSE LET tx == TransferX(ks, wx.seq, 1, <<>>)
             ty == TransferY(wy.seq, 1, <<>>)
         IN  IF tx.err # "" THEN [err |-> tx.err, x |-> <<>>, y |-> <<>>]
             ELSE IF ty.err # "" THEN [err |-> ty.err, x |-> <<>>, y |-> <<>>]
             ELSE [err |-> "", x |-> tx.x, y |-> ty.y]

\* ------------------------------------------------------- channel messages

NoRank == [options |-> <<>>, performance |-> <<>>, labels |-> <<>>]

\* iterResult = {"param": params}
SuggestedConfig(p) ==
    [kind |-> "suggest", param |-> p, hasRank |-> FALSE, rank |-> NoRank,
     finished |-> FALSE, err |-> "", cause |-> ""]

\* finalParam with "param", "rank" and "finished"
FinalWithRank(p, r) ==
    [kind |-> "final", param |-> p, hasRank |-> TRUE, rank |-> r,
     finished |-> TRUE, err |-> "", cause |-> ""]

\* finalParam with "finished" and "param" only (engine tpe)
FinalNoRank(p) ==
    [kind |-> "final", param |-> p, hasRank |-> FALSE, rank |-> NoRank,
     finished |-> TRUE, err |-> "", cause |-> ""]

ErrorAlwaysWrapped(cls) ==
    [kind |-> "error", param |-> EmptyDict, hasRank |-> FALSE, rank |-> NoRank,
     finished |-> FALSE, err |-> "Exception", cause |-> cls]

\* What the except clauses of run send: the ValueError or RuntimeError
\* itself, or Exception("Unexpected Error:", repr(e)) for any other class.
ErrorValue(cls) ==
    IF cls \in {"ValueError", "RuntimeError"}
    THEN [kind |-> "error", param |-> EmptyDict, hasRank |-> FALSE, rank |-> NoRank,
          finished |-> FALSE, err |-> cls, cause |-> ""]
    ELSE [kind |-> "error", param |-> EmptyDict, hasRank |-> FALSE, rank |-> NoRank,
          finished |-> FALSE, err |-> "Exception", cause |-> cls]

\* ------------------------------------------------------------- objective

\* The decoding loop shared by objective and by the reconstruction after the
\* search: params[name] = options[var[i]] for a string knob, var[i] otherwise.
RECURSIVE DecodeFrom(_, _, _, _)
DecodeFrom(ks, var, i, p) ==
    IF i > Len(ks) THEN [err |-> "", params |-> p]
    ELSE IF i > Len(var) THEN [err |-> "IndexError", params |-> p]
    ELSE IF ks[i].dtype = "string"
         THEN LET k == (var[i].n \div 10) + 1
              IN  IF var[i].t # "num" THEN [err |-> "TypeError", params |-> p]
                  ELSE IF k < 1 \/ k > Len(ks[i].options)
                       THEN [err |-> "IndexError", params |-> p]
                  ELSE DecodeFrom(ks, var, i + 1,
                                  DictSet(p, ks[i].name, ks[i].options[k]))
         ELSE DecodeFrom(ks, var, i + 1, DictSet(p, ks[i].name, var[i]))

DecodeNoLookup(ks, var, p) ==
    IF Len(ks) = 0 THEN [err |-> "", params |-> p]
    ELSE [err |-> "",
          params |-> [n \in DOMAIN p \cup {ks[j].name : j \in 1..Len(ks)} |->
                        LET j == CHOOSE j \in 1..Len(ks) : ks[j].name = n
                        IN  var[j]]]

Decode(ks, var, p) == DecodeFrom(ks, var, 1, p)

\* result.split(',') on the responses the model uses.
SplitComma(result) ==
    CASE result = "1" -> <<"1">>
      [] result = "1,2" -> <<"1", "2">>
      [] result = "0.5,1" -> <<"0.5", "1">>
      [] result = "1,x" -> <<"1", "x">>
      [] OTHER -> <<result>>

SumFromLast(eval_list, i, x_num) ==
    LET c == PyFloat(Str(eval_list[Len(eval_list)]))
    IN  IF c.err # "" THEN Raise(c.err) ELSE [err |-> "", v |-> c.v]

\* x_num = 0.0; for value in eval_list: x_num = x_num + float(value)
RECURSIVE SumFrom(_, _, _)
SumFrom(eval_list, i, x_num) ==
    IF i > Len(eval_list) THEN [err |-> "", v |-> Num(x_num)]
    ELSE LET c == PyFloat(Str(eval_list[i]))
         IN  IF c.err # "" THEN Raise(c.err)
             ELSE SumFrom(eval_list, i + 1, x_num + c.v.n)

\* The part of objective after recv: the score, or the exception's class.
\* A response that is no string has no split (AttributeError).
ParseResult(result) ==
    IF result.t # "str" THEN Raise("AttributeError")
    ELSE SumFrom(SplitComma(result.s), 1, 0)

\* ------------------------------------------------------------------ state

VARIABLES
    knobs,            \* self.knobs
    engine,           \* self.engine
    max_eval,         \* self.max_eval
    x0, y0,           \* self.x0, self.y0 (optional lists)
    n_random_starts,  \* self._n_random_starts
    ref,              \* self.ref
    pc,               \* where run stands
    params_space,     \* run's local params_space
    ref_x, ref_y,     \* run's locals ref_x, ref_y
    params,           \* run's local params (a dict)
    options,          \* run's local options (trial vectors)
    performance,      \* run's local performance (trial scores)
    labels,           \* run's local labels; feature_importance's argument
    ret,              \* run's local ret: unbound, or the engine's best vector
    sent,             \* every message the worker has sent on child_conn
    recvs,            \* number of child_conn.recv() calls that have returned
    calls,            \* the vectors the engine has called objective with
    invoked,          \* the search strategies run has started, with arguments
    collab,           \* trial history held by the abtest/lhs/tpe collaborator
    result,           \* objective's local result: the last response received
    declared,         \* the knob list as passed to the constructor
    configured,       \* the random-start count as the constructor stored it
    coef_,            \* feature_importance: lasso.coef_ of the last fit
    rank,             \* feature_importance: the ranking it returned
    faults            \* what the environment has done wrong so far: a response
                      \* that does not parse, a collaborator that raised

vars == <<knobs, engine, max_eval, x0, y0, n_random_starts, ref, pc,
          params_space, ref_x, ref_y, params, options, performance, labels,
          ret, sent, recvs, calls, invoked, collab, result, declared,
          configured, coef_, rank, faults>>

\* ----------------------------------------------------------------- bounds

MaxEval == 2
MaxRandomStarts == 1
MaxKnobs == 2
MaxLabels == 3
MaxCoef == 2
DefaultRandomStarts == 20

\* ------------------------------------------------------------- knob lists

KX == Knob("x", "continuous", "int", L(<<I(0), I(1)>>), NoneL, <<>>, FALSE, 0, I(1))
KMode == Knob("mode", "discrete", "string", NoneL, NoneL,
              <<Str("a"), Str("b")>>, FALSE, 0, Str("b"))
KDup == Knob("mode", "discrete", "string", NoneL, NoneL,
             <<Str("a"), Str("a")>>, FALSE, 0, Str("a"))
KItems == Knob("x", "discrete", "int", NoneL, L(<<I(1)>>), <<>>, FALSE, 0, Str("2"))
KBadRange == Knob("x", "continuous", "int", L(<<I(0)>>), NoneL, <<>>, FALSE, 0, I(0))
KOutside == Knob("y", "continuous", "int", L(<<I(0), I(1)>>), NoneL, <<>>, FALSE, 0, I(2))
KNoParse == Knob("y", "continuous", "float", L(<<I(0), I(1)>>), NoneL, <<>>,
                 FALSE, 0, Str("abc"))
KNoneRef == Knob("y", "discrete", "float", NoneL, NoneL, <<>>, FALSE, 0, NoneV)
KFrac == Knob("f", "discrete", "float", NoneL, L(<<Num(5), I(1)>>), <<>>,
              FALSE, 0, Num(5))
KNoMatch == Knob("nm", "discrete", "string", NoneL, NoneL,
                 <<Str("a"), Str("b")>>, FALSE, 0, Str("c"))

\* The knob lists of the runs.
RunKnobLists ==
    { <<KX>>, <<KX, KMode>>, <<KItems>>, <<KDup>>, <<>>,
      <<KBadRange>>, <<KX, KOutside>>, <<KNoParse>>, <<KNoneRef>>,
      <<KX, KNoMatch>>, <<KFrac>> }

\* The warm starts of the runs: (x0, y0).
WarmStarts ==
    { <<NoneL, NoneL>>,
      <<L(<< <<"x=1">> >>), L(<<Num(12)>>)>>,
      <<L(<< <<"x=0">>, <<"x=1">> >>), L(<<Num(12), Str("0.5")>>)>>,
      <<L(<< <<"x=1", "mode=a">> >>), L(<<Str("1.5")>>)>>,
      <<L(<< <<"x=1">>, <<"x=0">> >>), L(<<Num(12)>>)>>,
      <<L(<< <<"y=1">> >>), L(<<Num(12)>>)>>,
      <<L(<< <<"x1">> >>), L(<<Num(12)>>)>>,
      <<L(<< <<"x=1">> >>), L(<<Str("abc")>>)>>,
      <<L(<< <<"mode=b", "x=0">> >>), L(<<I(1)>>)>>,
      <<L(<< <<"x=1=2">> >>), L(<<I(1)>>)>>,
      <<L(<< <<"f=0.5">> >>), L(<<Num(12)>>)>>,
      <<L(<< <<"f=1">> >>), L(<<Num(12)>>)>>,
      <<L(<< <<"mode=a">> >>), L(<<Num(12)>>)>>,
      <<L(<< <<"x=1">> >>), NoneL>> }

EngineNames == {"random", "bayes", "abtest", "lhs", "tpe", "bayesian"}

\* What the harness may answer.
Responses == {Str("1"), Str("1,2"), Str("1,x"), NoneV}

Unbound == [bound |-> FALSE, x |-> <<>>]
NoTrials == [x |-> <<>>, y |-> <<>>]

\* The state after Optimizer.__init__ for the given arguments.
Constructed(ks, eng, n, w, nrs) ==
    /\ knobs = ks
    /\ declared = ks
    /\ engine = eng
    /\ max_eval = n
    /\ x0 = w[1]
    /\ y0 = w[2]
    /\ n_random_starts = nrs
    /\ configured = nrs
    /\ coef_ = <<>>
    /\ rank = <<>>
    /\ ref = <<>>
    /\ pc = "configured"
    /\ params_space = <<>>
    /\ ref_x = <<>>
    /\ ref_y = NoneL
    /\ params = EmptyDict
    /\ options = <<>>
    /\ performance = <<>>
    /\ labels = <<>>
    /\ ret = Unbound
    /\ sent = <<>>
    /\ recvs = 0
    /\ calls = <<>>
    /\ invoked = <<>>
    /\ collab = NoTrials
    /\ result = NoneV
    /\ faults = {}

Init ==
    \E ks \in RunKnobLists, eng \in EngineNames, n \in 1..MaxEval,
       w \in WarmStarts, nrs \in (0..MaxRandomStarts) \cup {DefaultRandomStarts} :
        Constructed(ks, eng, n, w, nrs)

\* ------------------------------------------------------------------- run

FailSilently(cls) ==
    /\ sent' = sent
    /\ pc' = "failed"

\* The except clauses of run: send the error value and return None.
Fail(cls) ==
    /\ sent' = Append(sent, ErrorValue(cls))
    /\ pc' = "failed"

\* params_space = self.build_space()
RunBuildSpace ==
    /\ pc = "configured"
    /\ LET b == build_space(knobs, ref)
       IN  /\ knobs' = b.knobs
           /\ ref' = b.ref
           /\ IF b.err # ""
              THEN Fail(b.err) /\ UNCHANGED params_space
              ELSE /\ params_space' = b.space
                   /\ pc' = "space_built"
                   /\ UNCHANGED sent
    /\ UNCHANGED <<engine, max_eval, x0, y0, n_random_starts, ref_x, ref_y,
                   params, options, performance, labels, ret, recvs, calls,
                   invoked, collab, declared, configured, coef_, rank, result, faults>>

AdjustedUnfloored(n, k) == n - k + 1

\* self._n_random_starts after the adjustment for k seed vectors.
AdjustedRandomStarts(n, k) == IF k >= n THEN 0 ELSE n - k + 1

\* ref_x, ref_y = self.transfer(), the fall-back to the reference vector,
\* and the adjustment of the random-start count.
RunTransfer ==
    /\ pc = "space_built"
    /\ LET t == transfer(knobs, x0, y0)
           fallback == Len(t.x) = 0
       IN  IF t.err # ""
           THEN Fail(t.err) /\ UNCHANGED <<ref_x, ref_y, n_random_starts>>
           ELSE IF fallback /\ Len(ref) = 0
           THEN Fail("IndexError") /\ UNCHANGED <<ref_x, ref_y, n_random_starts>>
           ELSE LET rx == IF fallback THEN <<ref>> ELSE t.x
                IN  /\ ref_x' = rx
                    /\ ref_y' = IF fallback THEN NoneL ELSE L(t.y)
                    /\ n_random_starts' = AdjustedRandomStarts(n_random_starts, Len(rx))
                    /\ pc' = "warmstart_resolved"
                    /\ UNCHANGED sent
    /\ UNCHANGED <<knobs, engine, max_eval, x0, y0, ref, params_space, params,
                   options, performance, labels, ret, recvs, calls, invoked,
                   collab, declared, configured, coef_, rank, result, faults>>

StrategyBayesian(eng) ==
    CASE eng = "random" -> "dummy_minimize"
      [] eng = "bayesian" -> "gp_minimize"
      [] eng = "abtest" -> "abtest"
      [] eng = "lhs" -> "lhs"
      [] eng = "tpe" -> "tpe"
      [] OTHER -> "none"

\* The if/elif chain on self.engine: the strategy a name starts, "none" for
\* a name no branch matches.
Strategy(eng) ==
    CASE eng = "random" -> "dummy_minimize"
      [] eng = "bayes" -> "gp_minimize"
      [] eng = "abtest" -> "abtest"
      [] eng = "lhs" -> "lhs"
      [] eng = "tpe" -> "tpe"
      [] OTHER -> "none"

\* The arguments a strategy is started with (x0, y0 and n_random_starts go
\* to gp_minimize alone).
Invocation(strategy) ==
    IF strategy = "gp_minimize"
    THEN [strategy |-> strategy, x0 |-> ref_x, y0 |-> ref_y,
          n_random_starts |-> n_random_starts]
    ELSE [strategy |-> strategy, x0 |-> <<>>, y0 |-> NoneL, n_random_starts |-> 0]

\* The dispatch on self.engine.  A name that matches no branch starts no
\* strategy and falls through to the code after the try statement.
Dispatch ==
    /\ pc = "warmstart_resolved"
    /\ LET strategy == Strategy(engine)
       IN  IF strategy = "none"
           THEN pc' = "reconstruct" /\ UNCHANGED invoked
           ELSE /\ pc' = "engine"
                /\ invoked' = Append(invoked, Invocation(strategy))
    /\ UNCHANGED <<knobs, engine, max_eval, x0, y0, n_random_starts, ref,
                   params_space, ref_x, ref_y, params, options, performance,
                   labels, ret, sent, recvs, calls, collab, declared,
                   configured, coef_, rank, result, faults>>

CurrentStrategy == IF invoked = <<>> THEN "none" ELSE invoked[Len(invoked)].strategy

\* The points an engine may propose in dimension i: the candidates of a
\* discrete knob; the integers of an int interval, the tenths of any other.
DimPoints(dim, dtype) ==
    IF dim.kind = "set" THEN SeqToSet(dim.cands)
    ELSE {Num(n) : n \in {m \in dim.lo.n .. dim.hi.n : dtype # "int" \/ m % 10 = 0}}

AllPoints == UNION {DimPoints(params_space[i], knobs[i].dtype) : i \in 1..Len(params_space)}

\* The vectors of the search space.
Vectors ==
    {v \in [1..Len(params_space) -> AllPoints] :
        \A i \in 1..Len(params_space) : v[i] \in DimPoints(params_space[i], knobs[i].dtype)}

ObjectiveSendNoWait(var) ==
    /\ pc = "engine"
    /\ CurrentStrategy \in {"dummy_minimize", "gp_minimize"}
    /\ Len(calls) < max_eval
    /\ calls' = Append(calls, var)
    /\ params' = Decode(knobs, var, params).params
    /\ sent' = Append(sent, SuggestedConfig(params'))
    /\ pc' = "engine"
    /\ UNCHANGED <<knobs, engine, max_eval, x0, y0, n_random_starts, ref,
                   params_space, ref_x, ref_y, options, performance, labels,
                   ret, recvs, invoked, collab, declared,
                   configured, coef_, rank, result, faults>>

\* objective, up to and including child_conn.send(iterResult); the worker is
\* then blocked in child_conn.recv().
ObjectiveSend(var) ==
    /\ pc = "engine"
    /\ CurrentStrategy \in {"dummy_minimize", "gp_minimize"}
    /\ Len(calls) < max_eval
    /\ calls' = Append(calls, var)
    /\ LET d == Decode(knobs, var, params)
       IN  /\ params' = d.params
           /\ IF d.err # ""
              THEN Fail(d.err)
              ELSE /\ sent' = Append(sent, SuggestedConfig(d.params))
                   /\ pc' = "awaiting"
    /\ UNCHANGED <<knobs, engine, max_eval, x0, y0, n_random_starts, ref,
                   params_space, ref_x, ref_y, options, performance, labels,
                   ret, recvs, invoked, collab, declared,
                   configured, coef_, rank, result, faults>>

\* objective from the return of child_conn.recv() to its own return.
ObjectiveRecv(response) ==
    /\ pc = "awaiting"
    /\ CurrentStrategy \in {"dummy_minimize", "gp_minimize"}
    /\ recvs' = recvs + 1
    /\ result' = response
    /\ LET r == ParseResult(response)
       IN  IF r.err # ""
           THEN /\ Fail(r.err)
                /\ faults' = faults \cup {"response"}
                /\ UNCHANGED <<options, performance>>
           ELSE /\ options' = Append(options, calls[Len(calls)])
                /\ performance' = Append(performance, r.v)
                /\ pc' = "engine"
                /\ UNCHANGED <<sent, faults>>
    /\ UNCHANGED <<knobs, engine, max_eval, x0, y0, n_random_starts, ref,
                   params_space, ref_x, ref_y, params, labels, ret, calls,
                   invoked, collab, declared, configured, coef_, rank>>

\* The vectors a minimizer may return as ret.x: an evaluated vector of
\* least score or, for gp_minimize started with scores, a warm-start vector
\* of the space scoring no more than every evaluation.
BestVectors ==
    LET least(j) == \A k \in 1..Len(performance) : performance[j].n <= performance[k].n
        evaluated == {options[j] : j \in {k \in 1..Len(options) : least(k)}}
        warm == IF CurrentStrategy = "gp_minimize" /\ ~ref_y.none
                THEN {ref_x[j] : j \in {k \in 1..Len(ref_x) :
                          /\ k <= Len(ref_y.seq)
                          /\ ref_x[k] \in Vectors
                          /\ \A m \in 1..Len(performance) :
                                ref_y.seq[k].n <= performance[m].n}}
                ELSE {}
    IN  evaluated \cup warm

\* dummy_minimize / gp_minimize return after n_calls evaluations.
MinimizeReturn ==
    /\ pc = "engine"
    /\ CurrentStrategy \in {"dummy_minimize", "gp_minimize"}
    /\ Len(options) = max_eval
    /\ \E best \in BestVectors : ret' = [bound |-> TRUE, x |-> best]
    /\ pc' = "reconstruct"
    /\ UNCHANGED <<knobs, engine, max_eval, x0, y0, n_random_starts, ref,
                   params_space, ref_x, ref_y, params, options, performance,
                   labels, sent, recvs, calls, invoked, collab, declared,
                   configured, coef_, rank, result, faults>>

\* A strategy raises instead of proposing or returning (a collaborator
\* failure); the except clauses of run report it.
EngineRaise(cls) ==
    /\ pc = "engine"
    /\ Fail(cls)
    /\ faults' = faults \cup {"collaborator"}
    /\ UNCHANGED <<knobs, engine, max_eval, x0, y0, n_random_starts, ref,
                   params_space, ref_x, ref_y, params, options, performance,
                   labels, ret, recvs, calls, invoked, collab, result, declared,
                   configured, coef_, rank>>

\* ---- the abtest, lhs and tpe collaborators (their code is outside this
\* ---- file; they hold child_conn and run their own evaluations)

CollabStrategies == {"abtest", "lhs", "tpe"}

\* The collaborator sends one configuration to the harness and waits.
CollabSend(var) ==
    /\ pc = "engine"
    /\ CurrentStrategy \in CollabStrategies
    /\ Len(collab.x) < max_eval
    /\ LET d == Decode(knobs, var, EmptyDict)
       IN  /\ d.err = ""
           /\ sent' = Append(sent, SuggestedConfig(d.params))
    /\ collab' = [collab EXCEPT !.x = Append(@, var)]
    /\ pc' = "awaiting"
    /\ UNCHANGED <<knobs, engine, max_eval, x0, y0, n_random_starts, ref,
                   params_space, ref_x, ref_y, params, options, performance,
                   labels, ret, recvs, calls, invoked, declared,
                   configured, coef_, rank, result, faults>>

\* The collaborator receives the response; a response it cannot read makes
\* it raise, and run reports the exception.
CollabRecv(response) ==
    /\ pc = "awaiting"
    /\ CurrentStrategy \in CollabStrategies
    /\ recvs' = recvs + 1
    /\ LET r == ParseResult(response)
       IN  IF r.err # ""
           THEN /\ Fail(r.err)
                /\ faults' = faults \cup {"response"}
                /\ UNCHANGED collab
           ELSE /\ collab' = [collab EXCEPT !.y = Append(@, r.v)]
                /\ pc' = "engine"
                /\ UNCHANGED <<sent, faults>>
    /\ UNCHANGED <<knobs, engine, max_eval, x0, y0, n_random_starts, ref,
                   params_space, ref_x, ref_y, params, options, performance,
                   labels, ret, calls, invoked, result, declared,
                   configured, coef_, rank>>

\* options, performance and params as the abtest or lhs branch binds them
\* when the collaborator's calls return; ret stays unbound.  The history
\* holds vectors in index form, which is what get_options_index returns.
CollabReturn ==
    /\ pc = "engine"
    /\ CurrentStrategy \in {"abtest", "lhs"}
    /\ Len(collab.y) >= 1
    /\ options' = collab.x
    /\ performance' = collab.y
    /\ \E j \in 1..Len(collab.x) : params' = Decode(knobs, collab.x[j], EmptyDict).params
    /\ pc' = "reconstruct"
    /\ UNCHANGED <<knobs, engine, max_eval, x0, y0, n_random_starts, ref,
                   params_space, ref_x, ref_y, labels, ret, sent, recvs, calls,
                   invoked, collab, declared, configured, coef_, rank, result, faults>>

TpeReturnFallsThrough ==
    /\ pc = "engine"
    /\ CurrentStrategy = "tpe"
    /\ Len(collab.y) >= 1
    /\ \E j \in 1..Len(collab.x) :
          sent' = Append(sent, FinalNoRank(Decode(knobs, collab.x[j], EmptyDict).params))
    /\ pc' = "reconstruct"
    /\ UNCHANGED <<knobs, engine, max_eval, x0, y0, n_random_starts, ref,
                   params_space, ref_x, ref_y, params, options, performance,
                   labels, ret, recvs, calls, invoked, collab, declared,
                   configured, coef_, rank, result, faults>>

\* The tpe branch: tpe_minimize_tuning returns best_params, run sends
\* {"finished": True, "param": best_params} and returns.
TpeReturn ==
    /\ pc = "engine"
    /\ CurrentStrategy = "tpe"
    /\ Len(collab.y) >= 1
    /\ \E j \in 1..Len(collab.x) :
          sent' = Append(sent, FinalNoRank(Decode(knobs, collab.x[j], EmptyDict).params))
    /\ pc' = "done"
    /\ UNCHANGED <<knobs, engine, max_eval, x0, y0, n_random_starts, ref,
                   params_space, ref_x, ref_y, params, options, performance,
                   labels, ret, recvs, calls, invoked, collab, declared,
                   configured, coef_, rank, result, faults>>

\* ---- after the try statement

\* The loop that rebuilds params from ret.x and fills labels.  ret is bound
\* by the random and bayes branches only: elsewhere reading it raises
\* UnboundLocalError, which nothing catches, and the process ends.
Reconstruct ==
    /\ pc = "reconstruct"
    /\ IF Len(knobs) = 0
       THEN pc' = "ranking" /\ UNCHANGED <<params, labels>>
       ELSE IF ~ret.bound
       THEN pc' = "crashed" /\ UNCHANGED <<params, labels>>
       ELSE LET d == Decode(knobs, ret.x, params)
            IN  /\ params' = d.params
                /\ labels' = [i \in 1..Len(knobs) |-> knobs[i].name]
                /\ pc' = IF d.err = "" THEN "ranking" ELSE "crashed"
    /\ UNCHANGED <<knobs, engine, max_eval, x0, y0, n_random_starts, ref,
                   params_space, ref_x, ref_y, options, performance, ret, sent,
                   recvs, calls, invoked, collab, declared,
                   configured, coef_, rank, result, faults>>

\* wefs.get_ensemble_feature_importance(options, performance, labels): the
\* ranking is a function of the trial history and the labels.
Ranking(opts, perf, labs) == [options |-> opts, performance |-> perf, labels |-> labs]

\* The ranking and the final message.  The ranker is called outside the try
\* statement: if it raises, nothing is sent and the process ends.
RankAndReport(ranker_ok) ==
    /\ pc = "ranking"
    /\ IF ranker_ok
       THEN /\ sent' = Append(sent, FinalWithRank(params, Ranking(options, performance, labels)))
            /\ pc' = "done"
            /\ UNCHANGED faults
       ELSE /\ pc' = "crashed"
            /\ faults' = faults \cup {"collaborator"}
            /\ UNCHANGED sent
    /\ UNCHANGED <<knobs, engine, max_eval, x0, y0, n_random_starts, ref,
                   params_space, ref_x, ref_y, params, options, performance,
                   labels, ret, recvs, calls, invoked, collab, result, declared,
                   configured, coef_, rank>>

CollaboratorErrors == {"ValueError", "RuntimeError", "KeyError"}

Next ==
    \/ RunBuildSpace
    \/ RunTransfer
    \/ Dispatch
    \/ \E var \in Vectors : ObjectiveSend(var)
    \/ \E response \in Responses : ObjectiveRecv(response)
    \/ MinimizeReturn
    \/ \E cls \in CollaboratorErrors : EngineRaise(cls)
    \/ \E var \in Vectors : CollabSend(var)
    \/ \E response \in Responses : CollabRecv(response)
    \/ CollabReturn
    \/ TpeReturn
    \/ Reconstruct
    \/ \E ranker_ok \in BOOLEAN : RankAndReport(ranker_ok)

Spec == Init /\ [][Next]_vars

\* ---------------------------------------------- build_space on its own

KLow == Knob("lo", "continuous", "int", L(<<I(0), I(1)>>), NoneL, <<>>, FALSE, 0, I(0))
KHalf == Knob("h", "continuous", "float", L(<<I(0), Str("1.5")>>), NoneL, <<>>,
              FALSE, 0, Str("0.5"))
KTrunc == Knob("t", "continuous", "int", L(<<Num(5), Num(15)>>), NoneL, <<>>,
               FALSE, 0, Num(4))
KAbove == Knob("a", "continuous", "float", L(<<I(0), I(1)>>), NoneL, <<>>,
               FALSE, 0, Num(11))
KAboveInt == Knob("ai", "continuous", "int", L(<<I(0), I(1)>>), NoneL, <<>>,
                  FALSE, 0, Num(11))
KBelow == Knob("b", "continuous", "float", L(<<Num(5), I(1)>>), NoneL, <<>>,
               FALSE, 0, Num(4))
KStale == Knob("s", "continuous", "string", L(<<I(0), I(1)>>), NoneL, <<>>,
               FALSE, 0, Str("b"))
KSteps == Knob("st", "discrete", "float", L(<<I(0), Num(2)>>), NoneL, <<>>,
               TRUE, 0, Num(1))
KRanges == Knob("r", "discrete", "int", L(<<I(0), I(2), I(5)>>), L(<<I(1), I(1)>>),
                <<>>, TRUE, Tenths(2), I(3))
KBadType == Knob("bt", "enum", "int", NoneL, NoneL, <<>>, FALSE, 0, I(0))
KBadDtype == Knob("bd", "discrete", "bool", NoneL, NoneL, <<>>, FALSE, 0, I(0))

KnobCatalog ==
    { KX, KMode, KDup, KItems, KBadRange, KOutside, KNoParse, KNoneRef, KFrac,
      KLow, KHalf, KTrunc, KAbove, KAboveInt, KBelow, KStale, KSteps, KRanges,
      KBadType, KBadDtype, KNoMatch }

\* Every knob list of one to MaxKnobs catalogue knobs.
KnobLists == UNION {[1..n -> KnobCatalog] : n \in 1..MaxKnobs}

InitBuild ==
    \E ks \in KnobLists :
        Constructed(ks, "random", 1, <<NoneL, NoneL>>, DefaultRandomStarts)

NextBuild == RunBuildSpace

\* A fresh worker and its first build_space call.
SpecBuild == InitBuild /\ [][NextBuild]_vars

\* ------------------------------------------- feature_importance on its own

Abs(x) == IF x < 0 THEN 0 - x ELSE x

\* round(coef * 100 / total_sum, 2), held in hundredths of a percent: the
\* nearest hundredth, with the sign of coef.
RoundedShareOfAbs(coef, total_sum) ==
    (2 * Abs(coef) * 10000 + total_sum) \div (2 * total_sum)

RoundedShare(coef, total_sum) ==
    IF coef < 0 THEN 0 - RoundedShareOfAbs(coef, total_sum)
    ELSE RoundedShareOfAbs(coef, total_sum)

\* sum(map(abs, lasso.coef_))
RECURSIVE SumAbs(_)
SumAbs(coefs) == IF coefs = <<>> THEN 0 ELSE Abs(Head(coefs)) + SumAbs(Tail(coefs))

\* sorted(result, key=lambda x: -np.abs(x[0])): a stable sort, so among equal
\* magnitudes the earlier pair comes first.
RECURSIVE SortedByAbs(_)
SortedByAbs(pairs) ==
    IF pairs = <<>> THEN <<>>
    ELSE LET m == CHOOSE i \in 1..Len(pairs) :
                    /\ \A j \in 1..Len(pairs) : Abs(pairs[j].coef) <= Abs(pairs[i].coef)
                    /\ \A j \in 1..(i - 1) : Abs(pairs[j].coef) < Abs(pairs[i].coef)
         IN  <<pairs[m]>>
             \o SortedByAbs(SubSeq(pairs, 1, m - 1) \o SubSeq(pairs, m + 1, Len(pairs)))

\* One "label: value" item of the returned text; percent says whether the
\* value is followed by a percent sign, value is in hundredths.
RankItem(label, value, percent) == [label |-> label, value |-> value, percent |-> percent]

\* The text feature_importance returns for the fitted coefficients, as the
\* list of its items.
Importance(coefs, labs) ==
    LET zipped == [i \in 1..Len(labs) |-> [coef |-> coefs[i], label |-> labs[i]]]
        total_sum == SumAbs(coefs)
        sorted == SortedByAbs(zipped)
    IN  IF total_sum = 0
        THEN [i \in 1..Len(labs) |-> RankItem(labs[i], 0, FALSE)]
        ELSE [i \in 1..Len(sorted) |->
                RankItem(sorted[i].label, RoundedShare(sorted[i].coef, total_sum), TRUE)]

LabelNames == <<"x", "mode", "f", "y", "lo">>

\* The label lists feature_importance is called with.
LabelLists == {SubSeq(LabelNames, 1, n) : n \in 1..MaxLabels}

\* The static method: the scaler and the Lasso fit are library code, whose
\* outcome is one coefficient per label.
feature_importance(labs, coefs) ==
    /\ labels' = labs
    /\ coef_' = coefs
    /\ rank' = Importance(coefs, labs)
    /\ UNCHANGED <<knobs, engine, max_eval, x0, y0, n_random_starts, ref, pc,
                   params_space, ref_x, ref_y, params, options, performance,
                   ret, sent, recvs, calls, invoked, collab, result, declared,
                   configured, faults>>

InitRank == Constructed(<<KX, KMode>>, "random", 1, <<NoneL, NoneL>>, DefaultRandomStarts)

NextRank ==
    \E labs \in LabelLists :
        \E coefs \in [1..Len(labs) -> (0 - MaxCoef)..MaxCoef] :
            feature_importance(labs, coefs)

SpecRank == InitRank /\ [][NextRank]_vars

\* ------------------------------------------------------------------ claims

IsSuggest(m) == m.kind = "suggest"
IsFinal(m) == m.kind = "final"
IsError(m) == m.kind = "error"
Suggests == SelectSeq(sent, IsSuggest)
Finals == SelectSeq(sent, IsFinal)
Errors == SelectSeq(sent, IsError)

\* The named configuration of a vector, read off the knob list directly.
Named(ks, var) ==
    [n \in {ks[i].name : i \in 1..Len(ks)} |->
        LET i == CHOOSE i \in 1..Len(ks) : ks[i].name = n
        IN  IF ks[i].dtype = "string" THEN ks[i].options[(var[i].n \div 10) + 1]
            ELSE var[i]]

\* The engines that drive objective directly (the spec's random and bayesian).
DirectEngines == {"random", "bayes"}

C1_Inv ==
    engine \in DirectEngines =>
        /\ Len(Suggests) - recvs \in {0, 1}
        /\ Len(Suggests) = Len(calls)
        /\ \A j \in 1..Len(Suggests) : Suggests[j].param = Named(knobs, calls[j])

C1_Step ==
    (engine \in DirectEngines /\ Len(Suggests) - recvs = 1 /\ sent' # sent) =>
        /\ recvs' = recvs + 1
        /\ Len(sent') = Len(sent) + 1
        /\ IsError(sent'[Len(sent')])

\* C1: with the random or bayesian engine the worker's sends and receives
\* alternate: the number of SuggestedConfig messages sent minus the number of
\* responses received is always 0 or 1, the j-th SuggestedConfig is the named
\* configuration of the j-th vector the engine called objective with, and
\* while a response is outstanding nothing is sent (the only message that
\* can follow is the error reported by the step that receives the response).
C1_Alternation == [](C1_Inv) /\ [][C1_Step]_vars

C1_Witness ==
    /\ engine = "bayes"
    /\ pc = "awaiting"
    /\ Len(Suggests) = 2
    /\ recvs = 1

\* The arguments of the constructor, judged before the run starts.
BuildFails == build_space(declared, <<>>).err # ""
TransferFails ==
    /\ ~BuildFails
    /\ transfer(build_space(declared, <<>>).knobs, x0, y0).err # ""
ValidKnobList == declared # <<>> /\ ~BuildFails

\* The domain a knob declares: the coerced interval of a continuous knob;
\* the items, the stepped ranges and the ref of a discrete numeric knob; the
\* options of a string knob.
InDeclaredDomain(k, v) ==
    LET conv(x) == IF k.dtype = "int" THEN PyInt(x) ELSE PyFloat(x)
        step == IF k.dtype = "int" THEN IntStep(k) ELSE FloatStep(k)
        extra == IF k.dtype = "int" THEN Tenths(1) ELSE 0
    IN  IF k.dtype = "string" THEN v \in SeqToSet(k.options)
        ELSE IF k.type = "continuous"
        THEN /\ v.t = "num"
             /\ conv(k.range.seq[1]).v.n <= v.n
             /\ v.n <= conv(k.range.seq[2]).v.n
        ELSE \/ v = conv(k.ref).v
             \/ ~k.items.none /\ v \in SeqToSet(k.items.seq)
             \/ ~k.range.none /\ v \in SeqToSet(RangeItems(k.range.seq, 1, extra, step))

\* C2: a random-engine run with budget N, a valid knob list, warm-start data
\* that transfer accepts (or none), a harness whose every answer parses and
\* collaborators that do not raise never fails; it sends at most N
\* SuggestedConfig messages and nothing else before the search returns,
\* exactly N by then, and ends with exactly one further message, the final
\* one, with finished = true and every knob's value inside its declared
\* domain; a final message is always the last message sent.
C2_RandomRun ==
    (engine = "random" /\ ValidKnobList /\ ~TransferFails /\ faults = {}) =>
        /\ pc \notin {"failed", "crashed"}
        /\ Errors = <<>>
        /\ Len(Suggests) <= max_eval
        /\ pc # "done" => sent = Suggests
        /\ pc \in {"reconstruct", "ranking", "done"} => Len(Suggests) = max_eval
        /\ pc = "done" =>
              /\ Len(sent) = max_eval + 1
              /\ SubSeq(sent, 1, max_eval) = Suggests
              /\ LET final == sent[Len(sent)]
                 IN  /\ IsFinal(final)
                     /\ final.finished
                     /\ DOMAIN final.param = {declared[i].name : i \in 1..Len(declared)}
                     /\ \A i \in 1..Len(declared) :
                           InDeclaredDomain(declared[i], final.param[declared[i].name])

C2_Witness ==
    /\ engine = "random"
    /\ pc = "done"
    /\ max_eval = MaxEval
    /\ Len(declared) = 2
    /\ Len(Suggests) = MaxEval
    /\ IsFinal(sent[Len(sent)])

\* C3: when build_space or transfer fails, whatever the engine, no
\* SuggestedConfig and no message with finished = true is ever sent, no
\* strategy is started, and the run ends having sent the error value and
\* nothing else.
C3_EarlyFailure ==
    (BuildFails \/ TransferFails) =>
        /\ pc \in {"configured", "space_built", "failed"}
        /\ invoked = <<>>
        /\ Suggests = <<>>
        /\ \A j \in 1..Len(sent) : ~sent[j].finished
        /\ pc # "failed" => sent = <<>>
        /\ pc = "failed" => Len(sent) = 1 /\ IsError(sent[1])

C3_Witness ==
    /\ TransferFails
    /\ declared # <<>>
    /\ engine = "tpe"
    /\ pc = "failed"
    /\ Len(sent) = 1
    /\ sent[1].err = "ValueError"

\* The engine names the dispatch of run knows.
CodeEngines == {"random", "bayes", "abtest", "lhs", "tpe"}

\* C4 (as claimed): a run that has failed, at whatever step, has sent exactly
\* one error value, as its last message, and no message with finished = true.
C4_EveryFailureReported ==
    (engine \in CodeEngines /\ pc \in {"failed", "crashed"}) =>
        /\ Len(Errors) = 1
        /\ IsError(sent[Len(sent)])
        /\ Finals = <<>>

\* The states a run is in only after the dispatch on self.engine.
PastDispatch == pc \in {"engine", "awaiting", "reconstruct", "ranking", "done", "crashed"}

\* C5 (as claimed): for random, bayes, abtest and lhs, once the search has
\* returned and no collaborator has raised, the worker rebuilds the named
\* parameters, ranks the trial history and sends one final message with
\* param, rank and finished = true as its last message; it never ends
\* without it.
C5_FinalAfterSearch ==
    (engine \in {"random", "bayes", "abtest", "lhs"} /\ faults = {}) =>
        /\ pc # "crashed"
        /\ pc \in {"ranking", "done"} =>
              labels = [i \in 1..Len(knobs) |-> knobs[i].name]
        /\ pc = "done" =>
              /\ Len(Finals) = 1
              /\ sent[Len(sent)] =
                    FinalWithRank(params, Ranking(options, performance, labels))

\* The strategy the claim has each name designate.
ClaimedStrategy(eng) ==
    CASE eng = "random" -> "dummy_minimize"
      [] eng = "bayesian" -> "gp_minimize"
      [] eng = "abtest" -> "abtest"
      [] eng = "lhs" -> "lhs"
      [] eng = "tpe" -> "tpe"

\* The strategy each name of the code designates.
DesignatedStrategy(eng) ==
    CASE eng = "random" -> "dummy_minimize"
      [] eng = "bayes" -> "gp_minimize"
      [] eng = "abtest" -> "abtest"
      [] eng = "lhs" -> "lhs"
      [] eng = "tpe" -> "tpe"

\* The warm start the run resolves: the transferred vectors and scores, or
\* the reference vector alone with no scores.
ResolvedWarmStart ==
    LET t == transfer(knobs, x0, y0)
    IN  IF Len(t.x) = 0 THEN [x |-> <<ref>>, y |-> NoneL] ELSE [x |-> t.x, y |-> L(t.y)]

\* C6 (as claimed): for the names random, bayesian, abtest, lhs and tpe, a
\* run that is past the dispatch has started exactly one strategy, the one the
\* name designates, bayesian designating gp_minimize.
C6_OneStrategyBayesian ==
    (engine \in {"random", "bayesian", "abtest", "lhs", "tpe"} /\ PastDispatch) =>
        /\ Len(invoked) = 1
        /\ invoked[1].strategy = ClaimedStrategy(engine)

\* C6 (amended): for the names random, bayes, abtest, lhs and tpe, a run
\* that is past the dispatch has started exactly one strategy, the one the
\* name designates; bayes starts gp_minimize with the resolved warm-start
\* vectors and scores and the adjusted random-start count.
C6_OneStrategy ==
    (engine \in CodeEngines /\ PastDispatch) =>
        /\ Len(invoked) = 1
        /\ invoked[1].strategy = DesignatedStrategy(engine)
        /\ engine = "bayes" =>
              /\ invoked[1].x0 = ResolvedWarmStart.x
              /\ invoked[1].y0 = ResolvedWarmStart.y
              /\ invoked[1].n_random_starts = n_random_starts

C6_Witness ==
    /\ engine = "bayes"
    /\ pc = "done"
    /\ ~invoked[1].y0.none
    /\ Len(invoked[1].x0) = 2

\* C7: with engine tpe the run never reaches the reconstruction or the
\* ranking: params, labels and ret are never written, no message carries a
\* rank, and the run is over exactly when it has sent its one final message,
\* the last message, with finished = true and the collaborator's parameters.
C7_TpeBypass ==
    engine = "tpe" =>
        /\ pc \notin {"reconstruct", "ranking", "crashed"}
        /\ labels = <<>> /\ params = EmptyDict /\ ret = Unbound
        /\ \A j \in 1..Len(sent) : ~sent[j].hasRank
        /\ Len(Finals) = (IF pc = "done" THEN 1 ELSE 0)
        /\ pc = "done" =>
              LET final == sent[Len(sent)]
              IN  /\ IsFinal(final)
                  /\ final.finished
                  /\ final.param \in {Named(knobs, collab.x[j]) : j \in 1..Len(collab.x)}

C7_Witness ==
    /\ engine = "tpe"
    /\ pc = "done"
    /\ Len(sent) = MaxEval + 1

\* A response with a sub-measurement that float() rejects.
NonNumeric(r) ==
    /\ r.t = "str"
    /\ \E i \in 1..Len(SplitComma(r.s)) : PyFloat(Str(SplitComma(r.s)[i])).err # ""

RunsObjective == CurrentStrategy \in {"dummy_minimize", "gp_minimize"}

\* C8 (as claimed): after a response with a non-numeric sub-measurement the
\* run has failed and its one error message is the wrapped unexpected-error
\* value, not the value of a configuration error.
C8_WrappedOnBadResponse ==
    (RunsObjective /\ NonNumeric(result)) =>
        /\ pc = "failed"
        /\ Len(Errors) = 1
        /\ sent[Len(sent)].err = "Exception"

\* C8 (amended): after a response with a non-numeric sub-measurement the run
\* has failed, its last and only error message is the ValueError that float()
\* raised, sent as it is (the class a configuration error is sent with), and
\* no SuggestedConfig or final message follows the failed evaluation.
C8_ValueErrorOnBadResponse ==
    (RunsObjective /\ NonNumeric(result)) =>
        /\ pc = "failed"
        /\ Len(Errors) = 1
        /\ sent[Len(sent)] = [kind |-> "error", param |-> EmptyDict,
                              hasRank |-> FALSE, rank |-> NoRank,
                              finished |-> FALSE, err |-> "ValueError",
                              cause |-> ""]
        /\ Finals = <<>>
        /\ Len(sent) = Len(Suggests) + 1
        /\ Len(Suggests) = recvs

C8_Witness ==
    /\ RunsObjective
    /\ NonNumeric(result)
    /\ pc = "failed"
    /\ recvs = 2

\* The conversion a numeric dtype declares.
Coerce(k, x) == IF k.dtype = "int" THEN PyInt(x) ELSE PyFloat(x)

\* A knob of one of the kinds the claim lists: continuous int/float,
\* discrete int/float, discrete string.
ListedKind(k) ==
    \/ k.type = "continuous" /\ k.dtype \in {"int", "float"}
    \/ k.type = "discrete" /\ k.dtype \in {"int", "float", "string"}

\* The reference entry a knob stands for: its coerced ref, or the index of
\* an option equal to its ref.
IsRefOf(k, r) ==
    IF k.dtype = "string"
    THEN \E j \in 1..Len(k.options) : k.options[j] = k.ref /\ r = I(j - 1)
    ELSE r = Coerce(k, k.ref).v

\* The dimension a knob stands for.
IsDimOf(k, d) ==
    IF k.type = "continuous"
    THEN d = Interval(Coerce(k, k.range.seq[1]).v, Coerce(k, k.range.seq[2]).v)
    ELSE IF k.dtype = "string"
    THEN d = Candidates([j \in 1..Len(k.options) |-> I(j - 1)])
    ELSE d.kind = "set" /\ \A v \in SeqToSet(d.cands) : InDeclaredDomain(k, v)

\* C9 (as claimed): after build_space has succeeded on a fresh worker, for a
\* list of continuous, discrete numeric and string knobs, there are as many
\* dimensions and as many reference entries as knobs, and dimension i and
\* reference entry i are those of knob i.
C9_OnePerKnob ==
    (pc = "space_built" /\ \A i \in 1..Len(declared) : ListedKind(declared[i])) =>
        /\ Len(params_space) = Len(declared)
        /\ Len(ref) = Len(declared)
        /\ \A i \in 1..Len(declared) :
              /\ IsDimOf(declared[i], params_space[i])
              /\ IsRefOf(declared[i], ref[i])

\* A continuous int/float knob with two bounds low <= high, all of which,
\* like its ref, coerce to the dtype.
CoercibleContinuous(k) ==
    /\ k.type = "continuous"
    /\ k.dtype \in {"int", "float"}
    /\ ~k.range.none
    /\ Len(k.range.seq) = 2
    /\ Coerce(k, k.ref).err = ""
    /\ Coerce(k, k.range.seq[1]).err = ""
    /\ Coerce(k, k.range.seq[2]).err = ""
    /\ Coerce(k, k.range.seq[1]).v.n <= Coerce(k, k.range.seq[2]).v.n

\* C10: once build_space has run, for every such knob i that the build
\* reached (the knobs before it built): if low <= ref <= high after coercion
\* the build did not fail at knob i, the reference entry added for it is the
\* coerced ref and, when the whole build succeeded, dimension i is the
\* interval (low, high); if ref < low or ref > high the build failed at knob
\* i with a ValueError, which is the one message sent.
C10_ContinuousRange ==
    pc # "configured" =>
        \A i \in 1..Len(declared) :
            LET k == declared[i]
                pre == build_space(SubSeq(declared, 1, i - 1), <<>>)
                low == Coerce(k, k.range.seq[1]).v
                high == Coerce(k, k.range.seq[2]).v
                r == Coerce(k, k.ref).v
            IN  (CoercibleContinuous(k) /\ pre.err = "") =>
                    IF low.n <= r.n /\ r.n <= high.n
                    THEN /\ Len(ref) > Len(pre.ref)
                         /\ ref[Len(pre.ref) + 1] = r
                         /\ pc = "space_built" => params_space[i] = Interval(low, high)
                    ELSE /\ pc = "failed"
                         /\ Len(ref) = Len(pre.ref)
                         /\ Len(sent) = 1
                         /\ sent[1].err = "ValueError"

C10_Witness ==
    /\ pc = "space_built"
    /\ Len(declared) = 2
    /\ declared[1] = KLow
    /\ declared[2] = KHalf
    /\ ref = <<I(0), Num(5)>>
    /\ params_space[2] = Interval(I(0), Num(15))

\* The position of knob i's entry in self.ref: one past the entries the knobs
\* before it left.
RefIndex(i) == Len(build_space(SubSeq(declared, 1, i - 1), <<>>).ref) + 1

\* C11: after a successful build_space, for every discrete int or float knob
\* the dimension is a candidate list that contains the coerced ref, lists no
\* value twice, and the knob's entry of the reference vector is that coerced
\* ref.
C11_RefAmongCandidates ==
    pc = "space_built" =>
        \A i \in 1..Len(declared) :
            LET k == declared[i]
            IN  (k.type = "discrete" /\ k.dtype \in {"int", "float"}) =>
                    /\ params_space[i].kind = "set"
                    /\ Coerce(k, k.ref).err = ""
                    /\ Coerce(k, k.ref).v \in SeqToSet(params_space[i].cands)
                    /\ Cardinality(SeqToSet(params_space[i].cands))
                          = Len(params_space[i].cands)
                    /\ RefIndex(i) <= Len(ref)
                    /\ ref[RefIndex(i)] = Coerce(k, k.ref).v

C11_Witness ==
    /\ pc = "space_built"
    /\ declared = <<KDup, KRanges>>
    /\ params_space[2].cands = <<I(0), I(1), I(2), I(3)>>
    /\ ref = <<I(0), I(1), I(3)>>

\* The index of an option, as the worker holds it: option j is index j - 1.
OptionAt(k, idx) == k.options[(idx.n \div 10) + 1]

\* The name-to-text dict of one x0 entry.
KvOf(xValue) == TokensToKv(xValue, 1, EmptyDict).kv

\* C12 (as claimed): for every string knob that the build reaches: the build
\* fails when no option equals ref; otherwise its dimension is exactly the
\* indices 0..len(options)-1 and it has one reference entry, the index of
\* the option equal to ref; each evaluated index and the index of the final
\* vector are decoded to options[index]; and the warm-start transfer encodes
\* options[i] as the one index i, so that every transferred vector decodes to
\* the text it was given as.
C12_StringRoundTrip ==
    \A i \in 1..Len(declared) :
        LET k == declared[i]
            pre == build_space(SubSeq(declared, 1, i - 1), <<>>)
            indices == [j \in 1..Len(k.options) |-> I(j - 1)]
        IN  (k.type = "discrete" /\ k.dtype = "string" /\ pre.err = "") =>
            /\ (pc # "configured" /\ k.ref \notin SeqToSet(k.options)) =>
                  pc = "failed" /\ sent = <<ErrorValue("ValueError")>>
            /\ pc \notin {"configured", "failed"} =>
                  /\ params_space[i] = Candidates(indices)
                  /\ RefIndex(i) <= Len(ref)
                  /\ OptionAt(k, ref[RefIndex(i)]) = k.ref
                  /\ RefIndex(i + 1) = RefIndex(i) + 1
            /\ engine \in DirectEngines =>
                  /\ \A j \in 1..Len(Suggests) :
                        Suggests[j].param[k.name] = OptionAt(k, calls[j][i])
                  /\ pc = "done" =>
                        sent[Len(sent)].param[k.name] = OptionAt(k, ret.x[i])
            /\ pc \notin {"configured", "space_built", "failed"} =>
                  \A j \in 1..Len(k.options) :
                      EncodeKnob(k, k.options[j]).xs = <<indices[j]>>
            /\ (pc \in {"warmstart_resolved", "engine"} /\ ~ref_y.none) =>
                  \A v \in 1..Len(ref_x) :
                      OptionAt(k, ref_x[v][i]) = KvOf(x0.seq[v])[k.name]

\* The warm start is supplied: transfer returns at once without it.
WarmStartSupplied == ~x0.none /\ ~y0.none

\* transfer has been called and build_space had succeeded before it.
TransferCalled == pc \notin {"configured", "space_built"} /\ ~BuildFails

\* The defects of an x0 entry that the claim says make transfer fail.
Malformed(xValue) ==
    \/ Len(xValue) # Len(declared)
    \/ \E t \in 1..Len(xValue) : Len(SplitEq(xValue[t])) # 2
    \/ \E i \in 1..Len(declared) : declared[i].name \notin DOMAIN KvOf(xValue)

\* The text is a value of the knob's declared domain (for a string knob, one
\* of its pairwise different options).
TextInDomain(k, text) ==
    IF k.dtype = "string"
    THEN text \in SeqToSet(k.options) /\ Cardinality(SeqToSet(k.options)) = Len(k.options)
    ELSE Coerce(k, text).err = "" /\ InDeclaredDomain(k, Coerce(k, text).v)

\* The entry names each knob exactly once, in any order, with a value of its
\* declared domain.
WellFormed(xValue) ==
    /\ ~Malformed(xValue)
    /\ \A i \in 1..Len(declared) :
          Cardinality({t \in 1..Len(xValue) : SplitEq(xValue[t])[1] = declared[i].name}) = 1
    /\ \A i \in 1..Len(declared) :
          TextInDomain(declared[i], KvOf(xValue)[declared[i].name])

\* The encoding the claim gives a knob's value: the integer, the float, or
\* the index of the option.
IsEncodingOf(k, text, e) ==
    IF k.dtype = "string" THEN e \in {I(j - 1) : j \in {m \in 1..Len(k.options) : k.options[m] = text}}
    ELSE e = Coerce(k, text).v

\* C13 (as claimed): once transfer has been called with a warm start: if some
\* x0 entry has a token count other than the knob count, a token that does
\* not split in two, or lacks a knob name, transfer failed with a ValueError,
\* the one message sent; if every x0 entry names each knob exactly once with
\* a value of the knob's domain (and every y0 entry is a float numeral or a
\* number), transfer succeeded and component i of vector v is the encoding of
\* knob i's value in entry v.
C13_TransferEncodes ==
    (TransferCalled /\ WarmStartSupplied) =>
        /\ (\E v \in 1..Len(x0.seq) : Malformed(x0.seq[v])) =>
              /\ pc = "failed"
              /\ ref_x = <<>>
              /\ sent = <<ErrorValue("ValueError")>>
        /\ ( /\ \A v \in 1..Len(x0.seq) : WellFormed(x0.seq[v])
             /\ \A j \in 1..Len(y0.seq) : PyFloat(y0.seq[j]).err = "" ) =>
              /\ Len(ref_x) = Len(x0.seq)
              /\ \A v \in 1..Len(x0.seq) :
                    /\ Len(ref_x[v]) = Len(declared)
                    /\ \A i \in 1..Len(declared) :
                          IsEncodingOf(declared[i], KvOf(x0.seq[v])[declared[i].name],
                                       ref_x[v][i])

\* The run handed warm-start vectors (not the reference vector) to gp_minimize.
WarmStarted == engine = "bayes" /\ PastDispatch /\ ~ref_y.none

\* C14 (as claimed): with k >= 1 warm-start vectors and a configured count n,
\* the random-start count passed to gp_minimize is max(0, n - k).
C14_DifferenceFlooredAtZero ==
    WarmStarted =>
        invoked[1].n_random_starts =
            (IF configured - Len(ref_x) > 0 THEN configured - Len(ref_x) ELSE 0)

\* The seed points are resolved: the warm-start vectors, or the reference
\* vector alone when x0 or y0 is absent or empty.
SeedsResolved == ref_x # <<>>

\* C15: once the seed points are resolved, whatever the engine, the adjusted
\* random-start count is 0 when the number of seed points is at least the
\* configured count, is never negative and never exceeds the configured
\* count; without warm start there is exactly one seed point, the reference
\* vector.
C15_AdjustedWithinBounds ==
    SeedsResolved =>
        /\ Len(ref_x) >= configured => n_random_starts = 0
        /\ n_random_starts >= 0
        /\ n_random_starts <= configured
        /\ (x0.none \/ y0.none) => ref_x = <<ref>> /\ ref_y.none

C15_Witness ==
    /\ pc = "warmstart_resolved"
    /\ x0.none
    /\ ref_x = <<ref>>
    /\ configured = 1
    /\ n_random_starts = 0

RECURSIVE SumValues(_)
SumValues(items) == IF items = <<>> THEN 0 ELSE Head(items).value + SumValues(Tail(items))

\* The coefficient fitted for a label.
CoefOf(label) == coef_[CHOOSE i \in 1..Len(labels) : labels[i] = label]

\* C16 (as claimed): after feature_importance: when every coefficient is 0
\* the text lists the labels in their order, each with 0; otherwise it lists
\* every label once, in descending order of absolute coefficient, each with
\* its share of the sum of absolute coefficients in percent, rounded to two
\* decimals: no percentage is negative and the percentages sum to 100 up to
\* the rounding of each item.
C16_SharesOfAbsoluteSum ==
    coef_ # <<>> =>
        IF SumAbs(coef_) = 0
        THEN rank = [i \in 1..Len(labels) |-> RankItem(labels[i], 0, FALSE)]
        ELSE /\ Len(rank) = Len(labels)
             /\ {rank[i].label : i \in 1..Len(rank)} = SeqToSet(labels)
             /\ \A i \in 1..(Len(rank) - 1) :
                   Abs(CoefOf(rank[i].label)) >= Abs(CoefOf(rank[i + 1].label))
             /\ \A i \in 1..Len(rank) :
                   /\ rank[i].percent
                   /\ rank[i].value >= 0
                   /\ rank[i].value =
                         RoundedShareOfAbs(CoefOf(rank[i].label), SumAbs(coef_))
             /\ Abs(SumValues(rank) - 10000) <= Len(rank)

\* A knob whose type is neither discrete nor continuous, or whose dtype its
\* type does not support.
Unsupported(k) ==
    \/ k.type \notin {"discrete", "continuous"}
    \/ k.type = "discrete" /\ k.dtype \notin {"int", "float", "string"}
    \/ k.type = "continuous" /\ k.dtype \notin {"int", "float"}

\* C17 (as claimed): once build_space has run on a list with an unsupported
\* knob at some position, the knobs before it building, the build has failed
\* with a ValueError, the one message sent, and no space was returned.
C17_UnsupportedKnobFails ==
    pc # "configured" =>
        \A i \in 1..Len(declared) :
            (Unsupported(declared[i])
                /\ build_space(SubSeq(declared, 1, i - 1), <<>>).err = "") =>
                    /\ pc = "failed"
                    /\ params_space = <<>>
                    /\ sent = <<ErrorValue("ValueError")>>

\* The sum of the sub-measurements of the well-formed responses.
ExpectedScore(r) ==
    CASE r = Str("1") -> Num(10)
      [] r = Str("1,2") -> Num(30)

WellFormedResponse(r) == r \in {Str("1"), Str("1,2")}

\* The trial history of a run that evaluates through objective: as many
\* vectors as scores, one per response received and parsed, vector j being the
\* j-th vector objective was called with.
C18_Inv ==
    RunsObjective =>
        /\ Len(options) = Len(performance)
        /\ Len(options) = recvs - (IF "response" \in faults THEN 1 ELSE 0)
        /\ \A j \in 1..Len(options) : options[j] = calls[j]

\* What a step does to the history: the step that receives a well-formed
\* response appends the vector just evaluated and the sum of the response's
\* sub-measurements; every other step, the receipt of a response that does
\* not parse included, leaves the history as it is.
C18_Step ==
    RunsObjective =>
        IF recvs' = recvs + 1 /\ WellFormedResponse(result')
        THEN /\ options' = Append(options, calls[Len(calls)])
             /\ performance' = Append(performance, ExpectedScore(result'))
        ELSE options' = options /\ performance' = performance

\* C18: in a run of the random or bayes engine the recorded trial vectors
\* and scores always have the same length, the number of evaluations whose
\* response was received and parsed; entry j is the j-th evaluated vector with
\* the sum of the sub-measurements of its response; entries are only ever
\* appended, and an evaluation whose response does not parse appends none.
C18_TrialHistory == [](C18_Inv) /\ [][C18_Step]_vars

C18_Witness ==
    /\ RunsObjective
    /\ pc = "failed"
    /\ recvs = 2
    /\ Len(calls) = 2
    /\ calls[1] # calls[2]
    /\ options = <<calls[1]>>
    /\ performance = <<Num(30)>>
    /\ result = Str("1,x")

\* C19 (as claimed): the knob descriptors stay as they were constructed:
\* every knob's items, range, options, step and ref are always those of the
\* knob list passed to the constructor.
C19_KnobsUnchanged ==
    /\ Len(knobs) = Len(declared)
    /\ \A i \in 1..Len(declared) :
          /\ knobs[i].items = declared[i].items
          /\ knobs[i].range = declared[i].range
          /\ knobs[i].options = declared[i].options
          /\ knobs[i].hasStep = declared[i].hasStep
          /\ knobs[i].step = declared[i].step
          /\ knobs[i].ref = declared[i].ref

\* transfer has returned vectors and scores for a supplied warm start.
Transferred == WarmStartSupplied /\ ~ref_y.none

\* C20 (as claimed): once transfer has succeeded on a supplied warm start,
\* there are as many vectors as scores, one per x0 entry, score j is the float
\* of y0[j], and x0 and y0 have the same length; in particular the warm start
\* passed to gp_minimize has as many scores as vectors.
C20_ScoresAligned ==
    Transferred =>
        /\ Len(ref_x) = Len(x0.seq)
        /\ Len(ref_x) = Len(ref_y.seq)
        /\ Len(x0.seq) = Len(y0.seq)
        /\ \A j \in 1..Len(ref_y.seq) : ref_y.seq[j] = PyFloat(y0.seq[j]).v
        /\ \A c \in 1..Len(invoked) :
              invoked[c].strategy = "gp_minimize" =>
                  Len(invoked[c].x0) = Len(invoked[c].y0.seq)

====
